---- MODULE Spec2Model ----
(***************************************************************************)
(* A model of examples/mkpart.rs: the argument resolver get_config, the    *)
(* orchestrator create_partition that drives the partitioning engine, and  *)
(* main, which maps their results to messages and an exit code.            *)
(*                                                                         *)
(* Text is a sequence of one-character strings.  An unsigned 64-bit value  *)
(* is a little-endian sequence of NLimbs limbs in base Base whose limbs    *)
(* above the fourth are zero; the same representation with all limbs used  *)
(* carries the exact (unwrapped) products.                                  *)
(***************************************************************************)
EXTENDS Integers, Sequences, FiniteSets, TLC

\* ------------------------------------------------------------------ bounds

\* Longest tail of letters appended to a numeral in a length argument.
MaxTail == 2
\* Largest number of arguments after the program name.
MaxArgs == 4

\* ------------------------------------------------------- limb arithmetic

\* A limb holds 16 bits; six limbs hold a u64 times any multiplier used here.
Base == 2 ^ 16
Zero == <<0, 0, 0, 0, 0, 0>>
NLimbs == Len(Zero)
Fits64(x) == x[5] = 0 /\ x[6] = 0

\* The low 64 bits of x: what a wrapping u64 operation keeps.
Wrap64(x) == [x EXCEPT ![5] = 0, ![6] = 0]

RECURSIVE MulAddFrom(_, _, _, _)
MulAddFrom(x, c, carry, i) ==
    IF i > NLimbs THEN <<>>
    ELSE LET t == x[i] * c + carry
         IN  <<t % Base>> \o MulAddFrom(x, c, t \div Base, i + 1)

\* x * c + a, exact, for a small multiplier c and a small addend a.
MulAdd(x, c, a) == MulAddFrom(x, c, a, 1)

RECURSIVE DivFrom(_, _, _, _)
DivFrom(x, d, i, rem) ==
    IF i = 0 THEN <<>>
    ELSE LET cur == rem * Base + x[i]
         IN  DivFrom(x, d, i - 1, cur % d) \o <<cur \div d>>

\* The truncating quotient x / d for a small divisor d > 0: long division
\* from the high limb down.
DivSmall(x, d) == DivFrom(x, d, NLimbs, 0)

\* 2^64 - x for 0 < x < 2^64: the magnitude of the negative i64 whose bit
\* pattern is x.
Neg64(x) ==
    Wrap64(MulAdd([i \in 1..NLimbs |-> IF i <= 4 THEN Base - 1 - x[i] ELSE 0], 1, 1))

\* ------------------------------------------------------------------ text

Digits == <<"0", "1", "2", "3", "4", "5", "6", "7", "8", "9">>

IsDigit(c) == \E d \in 1..10 : Digits[d] = c
DigitVal(c) == (CHOOSE d \in 1..10 : Digits[d] = c) - 1

\* str::ends_with
EndsWith(s, suf) ==
    /\ Len(s) >= Len(suf)
    /\ SubSeq(s, Len(s) - Len(suf) + 1, Len(s)) = suf

\* &s[..s.len() - n]
DropLast(s, n) == SubSeq(s, 1, Len(s) - n)

\* <u64 as FromStr>::from_str: an optional "+", then one or more decimal
\* digits, each step checked against u64::MAX.  A "-" is no digit for an
\* unsigned type, and a sign alone or the empty string is an error.
RECURSIVE ParseDigits(_, _, _)
ParseDigits(s, i, acc) ==
    IF i > Len(s) THEN [ok |-> TRUE, val |-> acc]
    ELSE IF ~IsDigit(s[i]) THEN [ok |-> FALSE, val |-> Zero]
    ELSE LET next == MulAdd(acc, 10, DigitVal(s[i]))
         IN  IF Fits64(next) THEN ParseDigits(s, i + 1, next)
             ELSE [ok |-> FALSE, val |-> Zero]

ParseU64(s) ==
    IF s = <<>> THEN [ok |-> FALSE, val |-> Zero]
    ELSE IF Len(s) = 1 /\ s[1] \in {"+", "-"} THEN [ok |-> FALSE, val |-> Zero]
    ELSE IF s[1] = "+" THEN ParseDigits(s, 2, Zero)
    ELSE ParseDigits(s, 1, Zero)

\* --------------------------------------------------------------- get_config

ConfigErr(msg) ==
    [ok |-> FALSE, err |-> msg, device |-> <<>>, start |-> Zero,
     unit |-> "none", value |-> Zero]

\* ParseLength cutting one byte, not two, off a length that ends in "MB".
ParseLength_CutOne(length_str) ==
    IF EndsWith(length_str, <<"M", "B">>)
    THEN [unit |-> "Megabytes", num |-> ParseU64(DropLast(length_str, 1))]
    ELSE IF EndsWith(length_str, <<"M">>)
    THEN [unit |-> "Mebibytes", num |-> ParseU64(DropLast(length_str, 1))]
    ELSE [unit |-> "Sectors", num |-> ParseU64(length_str)]

\* The length argument as a Unit: the suffix decides the tag and the rest
\* is parsed as a u64.
ParseLength(length_str) ==
    IF EndsWith(length_str, <<"M", "B">>)
    THEN [unit |-> "Megabytes", num |-> ParseU64(DropLast(length_str, 2))]
    ELSE IF EndsWith(length_str, <<"M">>)
    THEN [unit |-> "Mebibytes", num |-> ParseU64(DropLast(length_str, 1))]
    ELSE [unit |-> "Sectors", num |-> ParseU64(length_str)]

\* get_config reporting an invalid length before an invalid start.
get_config_LengthFirst(a) ==
    IF Len(a) < 1 THEN ConfigErr("no device provided")
    ELSE IF Len(a) < 2 THEN ConfigErr("no start provided")
    ELSE IF Len(a) < 3 THEN ConfigErr("no length provided")
    ELSE LET start == ParseU64(a[2])
             length == ParseLength(a[3])
         IN  IF ~length.num.ok THEN ConfigErr("invalid sector length")
             ELSE IF ~start.ok THEN ConfigErr("invalid start value")
             ELSE [ok |-> TRUE, err |-> "", device |-> a[1], start |-> start.val,
                   unit |-> length.unit, value |-> length.num.val]

\* get_config reading all three arguments with one check for the last.
get_config_OneCheck(a) ==
    IF Len(a) < 3 THEN ConfigErr("no length provided")
    ELSE LET start == ParseU64(a[2])
             length == ParseLength(a[3])
         IN  IF ~start.ok THEN ConfigErr("invalid start value")
             ELSE IF ~length.num.ok THEN ConfigErr("invalid sector length")
             ELSE [ok |-> TRUE, err |-> "", device |-> a[1], start |-> start.val,
                   unit |-> length.unit, value |-> length.num.val]

get_config(a) ==
    IF Len(a) < 1 THEN ConfigErr("no device provided")
    ELSE IF Len(a) < 2 THEN ConfigErr("no start provided")
    ELSE IF Len(a) < 3 THEN ConfigErr("no length provided")
    ELSE LET start == ParseU64(a[2])
             length == ParseLength(a[3])
         IN  IF ~start.ok THEN ConfigErr("invalid start value")
             ELSE IF ~length.num.ok THEN ConfigErr("invalid sector length")
             ELSE [ok |-> TRUE, err |-> "", device |-> a[1], start |-> start.val,
                   unit |-> length.unit, value |-> length.num.val]

\* ------------------------------------------------------------------ inputs

DevicePath == <<"/", "d", "e", "v", "/", "s", "d", "a">>

StartNumerals == {
    <<>>, <<"0", "0", "7">>,
    <<"0">>,
    <<"2", "0", "4", "8">>,
    <<"9", "2", "2", "3", "3", "7", "2", "0", "3", "6", "8", "5", "4", "7", "7", "5", "8", "0", "7">>,
    <<"9", "2", "2", "3", "3", "7", "2", "0", "3", "6", "8", "5", "4", "7", "7", "5", "8", "0", "8">>,
    <<"1", "8", "4", "4", "6", "7", "4", "4", "0", "7", "3", "7", "0", "9", "5", "5", "1", "6", "1", "5">>,
    <<"1", "8", "4", "4", "6", "7", "4", "4", "0", "7", "3", "7", "0", "9", "5", "5", "1", "6", "1", "6">> }

LengthNumerals == {
    <<>>, <<"+", "1">>, <<"-", "1">>,
    <<"1">>,
    <<"1", "0", "0">>,
    <<"1", "0", "0", "0">>,
    <<"1", "8", "4", "4", "6", "7", "4", "4", "0", "7", "3", "7", "0", "9">>,
    <<"1", "8", "4", "4", "6", "7", "4", "4", "0", "7", "3", "7", "1", "0">>,
    <<"1", "7", "5", "9", "2", "1", "8", "6", "0", "4", "4", "4", "1", "5">>,
    <<"1", "7", "5", "9", "2", "1", "8", "6", "0", "4", "4", "4", "1", "6">>,
    <<"9", "2", "2", "3", "3", "7", "2", "0", "3", "6", "8", "5", "4", "7", "7", "5", "8", "0", "8">>,
    <<"1", "8", "4", "4", "6", "7", "4", "4", "0", "7", "3", "7", "0", "9", "5", "5", "1", "6", "1", "5">>,
    <<"1", "8", "4", "4", "6", "7", "4", "4", "0", "7", "3", "7", "0", "9", "5", "5", "1", "6", "1", "6">> }

RECURSIVE Tails(_)
Tails(n) ==
    IF n = 0 THEN {<<>>}
    ELSE LET shorter == Tails(n - 1)
         IN  shorter \cup {t \o <<c>> : t \in shorter, c \in {"M", "B", "a"}}

StartArgs ==
    {p \o n \o t : p \in {<<>>, <<"+">>, <<"-">>}, n \in StartNumerals,
                   t \in {<<>>, <<"a">>}}

LengthArgs == {n \o t : n \in LengthNumerals, t \in Tails(MaxTail)}

\* Every argument list of at most MaxArgs arguments: the device, a start, a
\* length, and further arguments the program never reads.
RECURSIVE Extras(_)
Extras(n) == IF n = 0 THEN <<>> ELSE Extras(n - 1) \o <<<<"x">>>>

ArgLists ==
    {<<>>, <<DevicePath>>}
    \cup {<<DevicePath, s>> : s \in StartArgs}
    \cup {<<DevicePath, s, l>> \o Extras(k) :
            s \in StartArgs, l \in LengthArgs, k \in 0..(MaxArgs - 3)}

\* Sector sizes a device reports.
SectorSizes == {512, 4096}

\* The on-disk partition table before the run, as the set of partitions
\* this run has added to it.
InitialTable == {}

\* ------------------------------------------------------------------- state

VARIABLES
    args,         \* env::args().skip(1)
    pc,           \* where main is: "main", a step of create_partition, "returned", "exited"
    config,       \* what get_config returned
    sector_size,  \* dev.sector_size() of the opened device
    length,       \* the resolved sector length
    geometry,     \* the i64 start and length handed to Geometry::new
    steps,        \* the steps of create_partition executed so far, with the engine's answer
    held,         \* the engine objects create_partition's locals own, in declaration order
    open,         \* the engine objects that are open
    released,     \* the engine objects released so far, in order
    table,        \* the disk handle's in-memory partition table
    on_disk,      \* the partition table on the device
    lba,          \* the LBA flag: whether it is available, whether set_flag ran, its value
    result,       \* what create_partition returned: "pending", "Ok", an error kind, "panic"
    stderr,       \* the lines written to the error stream
    exit_code     \* the process exit code, -1 while it runs

vars == <<args, pc, config, sector_size, length, geometry, steps, held, open,
          released, table, on_disk, lba, result, stderr, exit_code>>

\* An i64 as sign and magnitude.
NoGeometry == [made |-> FALSE, start |-> [neg |-> FALSE, mag |-> Zero],
               length |-> [neg |-> FALSE, mag |-> Zero]]

Init ==
    /\ args \in ArgLists
    /\ pc = "main"
    /\ config = ConfigErr("pending")
    /\ sector_size = 0
    /\ length = Zero
    /\ geometry = NoGeometry
    /\ steps = <<>>
    /\ held = <<>>
    /\ open = {}
    /\ released = <<>>
    /\ table = InitialTable
    /\ on_disk = InitialTable
    /\ lba = [available |-> FALSE, called |-> FALSE, set |-> FALSE]
    /\ result = "pending"
    /\ stderr = <<>>
    /\ exit_code = -1

\* --------------------------------------------------------------------- main

\* ExitCode of a main that reports an error and then returns.
ExitCode_Returns(kind) == 0

\* exit(1) after a configuration error, exit(1) after a creation error, and
\* the status of a main that returns.
ExitCode(kind) ==
    IF kind = "Ok" THEN 0 ELSE 1

\* main, up to the call of create_partition: get_config and its error arm.
Main_GetConfig ==
    /\ pc = "main"
    /\ LET c == get_config(args)
       IN  /\ config' = c
           /\ IF c.ok
              THEN /\ pc' = "open_device"
                   /\ UNCHANGED <<stderr, exit_code>>
              ELSE /\ pc' = "exited"
                   /\ stderr' = stderr \o <<[line |-> "mkpart error", why |-> c.err],
                                            [line |-> "usage", why |-> ""]>>
                   /\ exit_code' = ExitCode("config")
    /\ UNCHANGED <<args, sector_size, length, geometry, steps, held, open,
                   released, table, on_disk, lba, result>>

\* main's match on what create_partition returned.
Main_Report ==
    /\ pc = "returned"
    /\ pc' = "exited"
    /\ exit_code' = ExitCode(result)
    /\ stderr' = IF result = "Ok" THEN stderr
                 ELSE Append(stderr, [line |-> "mkpart errored", why |-> result])
    /\ UNCHANGED <<args, config, sector_size, length, geometry, steps, held, open,
                   released, table, on_disk, lba, result>>

\* --------------------------------------------------------- create_partition

\* The steps of create_partition in program order.
StepOrder == <<"open_device", "resolve_length", "create_geometry", "create_disk",
               "create_partition", "lba_flag", "exact_constraint", "add_partition",
               "commit">>

\* ErrorKind with the kind of one step copied from the step above it.
ErrorKind_Copied(op) ==
    CASE op = "open_device" -> "OpenDevice"
      [] op = "create_geometry" -> "CreateGeometry"
      [] op = "create_disk" -> "CreateGeometry"
      [] op = "create_partition" -> "CreatePartition"
      [] op = "exact_constraint" -> "ExactConstraint"
      [] op = "add_partition" -> "AddPartition"
      [] op = "commit" -> "CommitChanges"

\* The PartedError variant each step's failure is mapped to.
ErrorKind(op) ==
    CASE op = "open_device" -> "OpenDevice"
      [] op = "create_geometry" -> "CreateGeometry"
      [] op = "create_disk" -> "CreateDisk"
      [] op = "create_partition" -> "CreatePartition"
      [] op = "exact_constraint" -> "ExactConstraint"
      [] op = "add_partition" -> "AddPartition"
      [] op = "commit" -> "CommitChanges"

\* The unit arithmetic of the match on `length`, in u64: the product of
\* each multiplication is checked, and kept modulo 2^64, before the next;
\* the division comes last.
Scaled(value, k, s) ==
    LET p1 == MulAdd(value, k, 0)
        p2 == MulAdd(Wrap64(p1), k, 0)
    IN  [overflow |-> ~Fits64(p1) \/ ~Fits64(p2),
         zero_div |-> s = 0,
         val |-> IF s = 0 THEN Zero ELSE DivSmall(Wrap64(p2), s)]

\* ResolveLength dividing by the sector size before multiplying.
ResolveLength_DivideFirst(unit, value, s) ==
    CASE unit = "Sectors" -> [overflow |-> FALSE, zero_div |-> FALSE, val |-> value]
      [] unit = "Mebibytes" ->
            [overflow |-> FALSE, zero_div |-> s = 0,
             val |-> IF s = 0 THEN Zero
                     ELSE Wrap64(MulAdd(Wrap64(MulAdd(DivSmall(value, s), 1000, 0)), 1000, 0))]
      [] unit = "Megabytes" ->
            [overflow |-> FALSE, zero_div |-> s = 0,
             val |-> IF s = 0 THEN Zero
                     ELSE Wrap64(MulAdd(Wrap64(MulAdd(DivSmall(value, s), 1024, 0)), 1024, 0))]

ResolveLength(unit, value, s) ==
    CASE unit = "Sectors" -> [overflow |-> FALSE, zero_div |-> FALSE, val |-> value]
      [] unit = "Mebibytes" -> Scaled(value, 1000, s)
      [] unit = "Megabytes" -> Scaled(value, 1024, s)

\* `x as i64`: the same 64 bits read as two's complement.
AsI64(x) ==
    IF x[4] >= Base \div 2 THEN [neg |-> TRUE, mag |-> Neg64(x)]
    ELSE [neg |-> FALSE, mag |-> x]

RECURSIVE Reverse(_)
Reverse(q) == IF q = <<>> THEN <<>> ELSE Append(Reverse(Tail(q)), Head(q))

\* ScopeExit with the first local, the device, leaked.
ScopeExit_LeakFirst(h) == IF h = <<>> THEN <<>> ELSE Reverse(Tail(h))

\* The locals dropped when create_partition's scope ends: all of them, the
\* last declared first.
ScopeExit(h) == Reverse(h)

Range(q) == {q[i] : i \in 1..Len(q)}

\* The engine: an object is open from the call that yields it until it is
\* dropped; add_partition changes the disk handle's in-memory table only;
\* commit writes that table to the device when it succeeds, and leaves the
\* device as it was when it fails.
EngineOpen(objects, handle) == objects \cup Range(handle)
EngineRelease(objects, dropped) == objects \ Range(dropped)
EngineAdd(ok, tbl, part) == IF ok THEN tbl \cup {part} ELSE tbl
EngineCommit(ok, tbl, device_tbl) == IF ok THEN tbl ELSE device_tbl

\* Leaving create_partition with `kind`, by return or by `?`.
Return(kind, h) ==
    /\ result' = kind
    /\ pc' = "returned"
    /\ released' = released \o ScopeExit(h)
    /\ open' = EngineRelease(open, ScopeExit(h))
    /\ held' = <<>>

\* Going on to step `next`, owning `handle` (if any) from now on.
Proceed(next, handle) ==
    /\ pc' = next
    /\ held' = held \o handle
    /\ open' = EngineOpen(open, handle)
    /\ UNCHANGED <<result, released>>

\* One fallible engine call that yields an object on success.
EngineStep(op, next, handle, ok) ==
    /\ pc = op
    /\ steps' = Append(steps, [op |-> op, ok |-> ok])
    /\ IF ok
       THEN Proceed(next, handle)
       ELSE Return(ErrorKind(op), held)

\* Device::new(&device)
Step_OpenDevice ==
    \E ok \in BOOLEAN, s \in SectorSizes :
        /\ EngineStep("open_device", "resolve_length", <<"dev">>, ok)
        /\ sector_size' = IF ok THEN s ELSE sector_size
        /\ UNCHANGED <<args, config, length, geometry, table, on_disk, lba,
                       stderr, exit_code>>

\* The match on `length`.  An overflowing product panics when the build
\* checks overflow and wraps when it does not; a zero divisor panics.  The
\* panic unwinds, which drops the locals, and the process ends with 101.
Step_ResolveLength ==
    /\ pc = "resolve_length"
    /\ LET r == ResolveLength(config.unit, config.value, sector_size)
       IN  \E checks \in BOOLEAN :
             /\ steps' = Append(steps, [op |-> "resolve_length", ok |-> TRUE])
             /\ IF (r.overflow /\ checks) \/ r.zero_div
                THEN /\ result' = "panic"
                     /\ pc' = "exited"
                     /\ released' = released \o ScopeExit(held)
                     /\ open' = EngineRelease(open, ScopeExit(held))
                     /\ held' = <<>>
                     /\ stderr' = Append(stderr, [line |-> "panicked", why |-> ""])
                     /\ exit_code' = 101
                     /\ UNCHANGED length
                ELSE /\ length' = r.val
                     /\ Proceed("create_geometry", <<>>)
                     /\ UNCHANGED <<stderr, exit_code>>
    /\ UNCHANGED <<args, config, sector_size, geometry, table, on_disk, lba>>

\* Geometry::new(&dev, start as i64, length as i64)
Step_CreateGeometry ==
    \E ok \in BOOLEAN :
        /\ EngineStep("create_geometry", "create_disk", <<"geometry">>, ok)
        /\ geometry' = [made |-> ok, start |-> AsI64(config.start),
                        length |-> AsI64(length)]
        /\ UNCHANGED <<args, config, sector_size, length, table, on_disk, lba,
                       stderr, exit_code>>

\* Disk::new(&mut dev)
Step_CreateDisk ==
    \E ok \in BOOLEAN :
        /\ EngineStep("create_disk", "create_partition", <<"disk">>, ok)
        /\ UNCHANGED <<args, config, sector_size, length, geometry, table, on_disk,
                       lba, stderr, exit_code>>

\* Partition::new(&mut disk, PED_PARTITION_NORMAL, None, geometry.start(), geometry.length())
Step_CreatePartition ==
    \E ok \in BOOLEAN :
        /\ EngineStep("create_partition", "lba_flag", <<"partition">>, ok)
        /\ UNCHANGED <<args, config, sector_size, length, geometry, table, on_disk,
                       lba, stderr, exit_code>>

\* The LBA step with set_flag's failure returned to the caller.
Step_LbaFlag_Propagates ==
    \E available \in BOOLEAN, ok \in BOOLEAN :
        /\ pc = "lba_flag"
        /\ steps' = Append(steps, [op |-> "lba_flag", ok |-> available => ok])
        /\ lba' = [available |-> available, called |-> available,
                   set |-> available /\ ok]
        /\ IF available => ok
           THEN Proceed("exact_constraint", <<>>)
           ELSE Return("SetFlag", held)
        /\ UNCHANGED <<args, config, sector_size, length, geometry, table, on_disk,
                       stderr, exit_code>>

\* is_flag_available(PED_PARTITION_LBA), and set_flag(PED_PARTITION_LBA, true)
\* if it is.  set_flag's result is bound to `_`: the function goes on either
\* way.  The step is recorded with set_flag's answer, and as answered well
\* when set_flag is not called.
Step_LbaFlag ==
    \E available \in BOOLEAN, ok \in BOOLEAN :
        /\ pc = "lba_flag"
        /\ steps' = Append(steps, [op |-> "lba_flag",
                                   ok |-> available => ok])
        /\ lba' = [available |-> available, called |-> available,
                   set |-> available /\ ok]
        /\ Proceed("exact_constraint", <<>>)
        /\ UNCHANGED <<args, config, sector_size, length, geometry, table, on_disk,
                       stderr, exit_code>>

\* geometry.exact()
Step_ExactConstraint ==
    \E ok \in BOOLEAN :
        /\ EngineStep("exact_constraint", "add_partition", <<"constraint">>, ok)
        /\ UNCHANGED <<args, config, sector_size, length, geometry, table, on_disk,
                       lba, stderr, exit_code>>

\* add_partition with its result dropped: a rejected partition is followed by
\* a commit.
Step_AddPartition_Unchecked ==
    \E ok \in BOOLEAN :
        /\ pc = "add_partition"
        /\ steps' = Append(steps, [op |-> "add_partition", ok |-> ok])
        /\ Proceed("commit", <<>>)
        /\ table' = EngineAdd(ok, table, [start |-> geometry.start,
                                           end |-> geometry.length, lba |-> lba.set])
        /\ UNCHANGED <<args, config, sector_size, length, geometry, on_disk, lba,
                       stderr, exit_code>>

\* disk.add_partition(&mut partition, &constraint): the partition joins the
\* disk handle's in-memory table.
Step_AddPartition ==
    \E ok \in BOOLEAN :
        /\ EngineStep("add_partition", "commit", <<>>, ok)
        /\ table' = EngineAdd(ok, table, [start |-> geometry.start,
                                           end |-> geometry.length, lba |-> lba.set])
        /\ UNCHANGED <<args, config, sector_size, length, geometry, on_disk, lba,
                       stderr, exit_code>>

\* disk.commit(), and Ok(()) after it: the in-memory table reaches the device
\* only when the engine reports success.
Step_Commit ==
    \E ok \in BOOLEAN :
        /\ pc = "commit"
        /\ steps' = Append(steps, [op |-> "commit", ok |-> ok])
        /\ on_disk' = EngineCommit(ok, table, on_disk)
        /\ IF ok
           THEN Return("Ok", held)
           ELSE Return(ErrorKind("commit"), held)
        /\ UNCHANGED <<args, config, sector_size, length, geometry, table, lba,
                       stderr, exit_code>>

Next ==
    \/ Main_GetConfig
    \/ Step_OpenDevice
    \/ Step_ResolveLength
    \/ Step_CreateGeometry
    \/ Step_CreateDisk
    \/ Step_CreatePartition
    \/ Step_LbaFlag
    \/ Step_ExactConstraint
    \/ Step_AddPartition
    \/ Step_Commit
    \/ Main_Report

Spec == Init /\ [][Next]_vars

\* --------------------------------------------------------------- properties

Last(q) == q[Len(q)]
Ops(q) == {q[i].op : i \in 1..Len(q)}
Returned == pc \in {"returned", "exited"} /\ result \notin {"pending", "panic"}

\* The error kind the program's contract gives each fallible step.
KindOfStep ==
    [open_device |-> "OpenDevice", create_geometry |-> "CreateGeometry",
     create_disk |-> "CreateDisk", create_partition |-> "CreatePartition",
     exact_constraint |-> "ExactConstraint", add_partition |-> "AddPartition",
     commit |-> "CommitChanges"]

\* A step of the log at which the engine reported a failure that is not the
\* (swallowed) failure to set the LBA flag.
FailedAt(i) == steps[i].ok = FALSE /\ steps[i].op # "lba_flag"

\* C1: the steps of create_partition run in the fixed order open-device,
\* resolve-length, construct-geometry, open-disk, construct-partition,
\* LBA-flag, exact-constraint, add-partition, commit, each at most once; a
\* step at which the engine reports a failure is the last step executed, and
\* the error returned is the kind of exactly that step; an error is returned
\* only for such a step.
C1_OrderedFailFast ==
    /\ Len(steps) <= Len(StepOrder)
    /\ \A i \in 1..Len(steps) : steps[i].op = StepOrder[i]
    /\ \A i \in 1..Len(steps) :
          FailedAt(i) => /\ i = Len(steps)
                         /\ result = KindOfStep[steps[i].op]
                         /\ pc \in {"returned", "exited"}
    /\ result \notin {"pending", "Ok", "panic"} =>
          /\ steps # <<>>
          /\ FailedAt(Len(steps))
          /\ result = KindOfStep[Last(steps).op]
    /\ result = "Ok" => /\ Len(steps) = Len(StepOrder)
                        /\ \A i \in 1..Len(steps) : ~FailedAt(i)

\* The engine refuses to open the disk: four steps ran and CreateDisk is returned.
C1_Witness ==
    /\ result = "CreateDisk"
    /\ Len(steps) = 4
    /\ Last(steps) = [op |-> "create_disk", ok |-> FALSE]

\* C2: the on-disk table differs from its initial content only if the commit
\* step returned success; what add-partition changed through the disk
\* handle is not on the device before that; when commit or an earlier step
\* fails the on-disk table is unchanged and the failed call is the last
\* engine call made.
C2_OnDiskOnlyAfterCommit ==
    /\ on_disk # InitialTable =>
          /\ steps # <<>>
          /\ Last(steps) = [op |-> "commit", ok |-> TRUE]
          /\ result = "Ok"
    /\ [op |-> "commit", ok |-> TRUE] \notin Range(steps) => on_disk = InitialTable
    /\ \A i \in 1..Len(steps) :
          FailedAt(i) => on_disk = InitialTable /\ i = Len(steps)
    /\ result \notin {"pending", "Ok"} => on_disk = InitialTable

\* The partition was added in memory and the commit failed: the device holds
\* its initial table.
C2_Witness ==
    /\ table # InitialTable
    /\ Last(steps) = [op |-> "commit", ok |-> FALSE]
    /\ result = "CommitChanges"
    /\ on_disk = InitialTable

\* C3: with fewer than three arguments get_config fails with the
\* missing-argument error that names the first absent one (device, then
\* start, then length), and create_partition is never invoked: no step runs
\* and no engine object is ever opened.
C3_MissingArgument ==
    Len(args) < 3 =>
        /\ steps = <<>> /\ open = {} /\ result = "pending"
        /\ pc \in {"main", "exited"}
        /\ pc = "exited" =>
              /\ ~config.ok
              /\ Len(args) = 0 => config.err = "no device provided"
              /\ Len(args) = 1 => config.err = "no start provided"
              /\ Len(args) = 2 => config.err = "no length provided"

\* Device and start given, length absent.
C3_Witness ==
    /\ Len(args) = 2
    /\ pc = "exited"
    /\ config.err = "no length provided"

\* Decimal text, read without the program's parser: the digits after an
\* optional "+", their value by Horner's rule, and the test against the text
\* of u64::MAX.
Unsigned(t) == IF t # <<>> /\ t[1] = "+" THEN Tail(t) ELSE t
IsNumeric(t) == t # <<>> /\ \A i \in 1..Len(t) : IsDigit(t[i])

RECURSIVE StripZeros(_)
StripZeros(t) == IF t # <<>> /\ t[1] = "0" THEN StripZeros(Tail(t)) ELSE t

RECURSIVE TextLeq(_, _)
TextLeq(a, b) ==
    IF a = <<>> THEN TRUE
    ELSE IF a[1] # b[1] THEN DigitVal(a[1]) < DigitVal(b[1])
    ELSE TextLeq(Tail(a), Tail(b))

MaxU64Text == <<"1", "8", "4", "4", "6", "7", "4", "4", "0", "7",
                "3", "7", "0", "9", "5", "5", "1", "6", "1", "5">>

IsU64Text(t) ==
    /\ IsNumeric(Unsigned(t))
    /\ LET d == StripZeros(Unsigned(t))
       IN  \/ Len(d) < Len(MaxU64Text)
           \/ Len(d) = Len(MaxU64Text) /\ TextLeq(d, MaxU64Text)

RECURSIVE Horner(_, _)
Horner(t, k) ==
    IF k = 0 THEN Zero ELSE MulAdd(Horner(t, k - 1), 10, DigitVal(t[k]))

ValueOf(t) == Horner(Unsigned(t), Len(Unsigned(t)))

\* What get_config must have returned for a length whose numeric part is
\* `t` and whose unit is `unit`.
LengthIs(unit, t) ==
    IF IsU64Text(t)
    THEN config.ok /\ config.unit = unit /\ config.value = ValueOf(t)
    ELSE ~config.ok /\ config.err = "invalid sector length"

ConfigRead == pc # "main" /\ Len(args) >= 3

\* C4: a length ending in "MB" is stripped of "MB" and tagged Megabytes;
\* otherwise one ending in "M" is stripped of "M" and tagged Mebibytes;
\* otherwise the whole string is tagged Sectors.  For every number n that
\* fits a u64, "nMB" is Megabytes(n): never Mebibytes, and never an invalid
\* length from the remainder "nM".
C4_LongestSuffixFirst ==
    (ConfigRead /\ IsU64Text(args[2])) =>
        LET l == args[3]
            n == Len(l)
        IN  /\ \A k \in 0..n :
                 LET t == SubSeq(l, 1, k)
                 IN  /\ l = t \o <<"M", "B">> => LengthIs("Megabytes", t)
                     /\ l = t \o <<"M">> => LengthIs("Mebibytes", t)
                     /\ (l = t \o <<"M", "B">> /\ IsU64Text(t)) =>
                            /\ config.ok
                            /\ config.unit = "Megabytes"
                            /\ config.value = ValueOf(t)
            /\ (n = 0 \/ l[n] \notin {"M", "B"} \/ (l[n] = "B" /\ (n = 1 \/ l[n - 1] # "M")))
                  => LengthIs("Sectors", l)

\* "100MB" was read as Megabytes(100).
C4_Witness ==
    /\ ConfigRead
    /\ args[3] = <<"1", "0", "0", "M", "B">>
    /\ config.ok
    /\ config.unit = "Megabytes"
    /\ config.value = <<100, 0, 0, 0, 0, 0>>

\* The length argument without its unit suffix.
Remainder(l) ==
    LET n == Len(l)
    IN  IF n >= 2 /\ l[n - 1] = "M" /\ l[n] = "B" THEN SubSeq(l, 1, n - 2)
        ELSE IF n >= 1 /\ l[n] = "M" THEN SubSeq(l, 1, n - 1)
        ELSE l

\* C9: with at least three arguments get_config returns InvalidStart exactly
\* when the start is no unsigned 64-bit decimal integer, whatever the
\* length; InvalidLength exactly when the start is one and the length
\* without its suffix is not (the empty remainder of "M" and "MB" included);
\* and succeeds otherwise, with the device and the start as given.  With
\* fewer than three arguments the error is a missing-argument error.
C9_StartThenLength ==
    /\ ConfigRead =>
          /\ config.err = "invalid start value" <=> ~IsU64Text(args[2])
          /\ config.err = "invalid sector length" <=>
                (IsU64Text(args[2]) /\ ~IsU64Text(Remainder(args[3])))
          /\ config.ok <=> (IsU64Text(args[2]) /\ IsU64Text(Remainder(args[3])))
          /\ config.ok => /\ config.device = args[1]
                          /\ config.start = ValueOf(args[2])
                          /\ config.value = ValueOf(Remainder(args[3]))
    /\ (pc # "main" /\ Len(args) < 3) =>
          config.err \in {"no device provided", "no start provided",
                          "no length provided"}

\* Neither argument is a number: the start is the one reported.
C9_Witness ==
    /\ ConfigRead
    /\ ~IsU64Text(args[2])
    /\ args[3] = <<"M", "B">>
    /\ config.err = "invalid start value"

\* The length has been resolved: the second step ran and did not panic.
Resolved == Len(steps) >= 2 /\ result # "panic"

\* value * 1_000_000 and value * 1_048_576, exact.
TimesMillion(v) == MulAdd(MulAdd(v, 15625, 0), 64, 0)
TimesMebi(v) == MulAdd(MulAdd(v, 16384, 0), 64, 0)

RECURSIVE LessFrom(_, _, _)
LessFrom(x, y, i) ==
    IF i = 0 THEN FALSE
    ELSE IF x[i] # y[i] THEN x[i] < y[i]
    ELSE LessFrom(x, y, i - 1)

\* x < y and x <= y as numbers.
Less(x, y) == LessFrom(x, y, NLimbs)
LessEq(x, y) == x = y \/ Less(x, y)

\* q is the truncated quotient p / d.
IsQuotient(q, p, d) ==
    /\ d > 0
    /\ LessEq(MulAdd(q, d, 0), p)
    /\ Less(p, MulAdd(q, d, d))

\* C5: from the sector size s of the device, Sectors(n) resolves to n,
\* Mebibytes(m) to m * 1_000_000 / s and Megabytes(mb) to
\* mb * 1_048_576 / s, the multiplication first and the division
\* truncating, in unsigned 64-bit arithmetic (the product is its low 64
\* bits); Mebibytes(1) at 512 bytes a sector is 1953; the length is
\* resolved only after the device was opened successfully.
C5_ConversionTable ==
    Resolved =>
        /\ steps[1] = [op |-> "open_device", ok |-> TRUE]
        /\ steps[2].op = "resolve_length"
        /\ Fits64(length)
        /\ config.unit = "Sectors" => length = config.value
        /\ config.unit = "Mebibytes" =>
              IsQuotient(length, Wrap64(TimesMillion(config.value)), sector_size)
        /\ config.unit = "Megabytes" =>
              IsQuotient(length, Wrap64(TimesMebi(config.value)), sector_size)
        /\ (config.unit = "Mebibytes" /\ config.value = <<1, 0, 0, 0, 0, 0>>
               /\ sector_size = 512) => length = <<1953, 0, 0, 0, 0, 0>>

\* Mebibytes(1) on a device of 512-byte sectors resolved to 1953 sectors.
C5_Witness ==
    /\ Resolved
    /\ config.unit = "Mebibytes"
    /\ config.value = <<1, 0, 0, 0, 0, 0>>
    /\ sector_size = 512
    /\ length = <<1953, 0, 0, 0, 0, 0>>

\* The length of the conversion table as a mathematical integer.
ExactLength ==
    CASE config.unit = "Sectors" -> config.value
      [] config.unit = "Mebibytes" -> DivSmall(TimesMillion(config.value), sector_size)
      [] config.unit = "Megabytes" -> DivSmall(TimesMebi(config.value), sector_size)

\* C10: for every u64 start, every u64 length of any unit and every sector
\* size, the start and the length handed to Geometry::new equal, as
\* mathematical integers, the parsed start and the length of the
\* conversion table: no product exceeds 64 bits, no division is by zero, and
\* the conversions to i64 change no value and make none negative.
C10_ExactGeometry ==
    /\ result # "panic"
    /\ "create_geometry" \in Ops(steps) =>
          /\ geometry.start = [neg |-> FALSE, mag |-> config.start]
          /\ geometry.length = [neg |-> FALSE, mag |-> ExactLength]

\* The lines main writes for a configuration error and for a creation error.
ConfigErrorLines ==
    <<[line |-> "mkpart error", why |-> config.err], [line |-> "usage", why |-> ""]>>
CreationErrorLines == <<[line |-> "mkpart errored", why |-> result]>>

\* C6: the exit code is 0 exactly when get_config and create_partition both
\* succeed, and 1 on any configuration error and on any partition-creation
\* error; in both error cases a message is on the error stream, and the
\* usage line is written on a configuration error and only then.
C6_ExitCodes ==
    /\ pc # "exited" => exit_code = -1
    /\ pc = "exited" =>
          /\ exit_code = 0 <=> (config.ok /\ result = "Ok")
          /\ ~config.ok => exit_code = 1 /\ stderr = ConfigErrorLines
          /\ (config.ok /\ result \notin {"Ok", "panic"}) =>
                exit_code = 1 /\ stderr = CreationErrorLines
          /\ result = "Ok" => stderr = <<>>
          /\ (\E i \in 1..Len(stderr) : stderr[i].line = "usage") <=> ~config.ok

\* The engine rejected the partition: one message, no usage line, exit code 1.
C6_Witness ==
    /\ pc = "exited"
    /\ result = "AddPartition"
    /\ exit_code = 1
    /\ stderr = <<[line |-> "mkpart errored", why |-> "AddPartition"]>>

\* C7: set_flag is called only if the engine reports the LBA flag as
\* available, and whatever it answers, or when it is skipped,
\* exact-constraint is the next step and the result of create_partition is
\* decided by exact-constraint, add-partition and commit alone; every other
\* failure the engine reports ends the function with an error.
C7_FlagFailureSwallowed ==
    /\ lba.called => lba.available
    /\ lba.set => lba.called
    /\ \A i \in 1..Len(steps) :
          steps[i].op = "lba_flag" =>
              /\ i = Len(steps) => pc = "exact_constraint" /\ result = "pending"
              /\ i < Len(steps) => steps[i + 1].op = "exact_constraint"
              /\ result = "Ok" <=>
                    /\ Len(steps) = i + 3
                    /\ \A j \in (i + 1)..(i + 3) : steps[j].ok
              /\ result \notin {"pending", "Ok"} =>
                    /\ Len(steps) > i
                    /\ ~Last(steps).ok
                    /\ result = KindOfStep[Last(steps).op]
    /\ \A i \in 1..Len(steps) :
          FailedAt(i) => result \notin {"pending", "Ok"}

\* set_flag was called and failed, and the partition was created all the same.
C7_Witness ==
    /\ lba.called
    /\ ~lba.set
    /\ [op |-> "lba_flag", ok |-> FALSE] \in Range(steps)
    /\ result = "Ok"

\* The engine object each step yields, and how often an object was released.
Yields ==
    [open_device |-> "dev", create_geometry |-> "geometry", create_disk |-> "disk",
     create_partition |-> "partition", exact_constraint |-> "constraint"]
Acquired(h) ==
    \E i \in 1..Len(steps) :
        /\ steps[i].ok
        /\ steps[i].op \in DOMAIN Yields
        /\ Yields[steps[i].op] = h
TimesReleased(h) == Cardinality({i \in 1..Len(released) : released[i] = h})

\* C8: after create_partition returns, with success or with the error of any
\* step, no device, geometry, disk, partition or constraint is open: every
\* object acquired in the run has been released exactly once, and nothing
\* else has.
C8_AllReleased ==
    Returned =>
        /\ open = {}
        /\ held = <<>>
        /\ \A h \in {Yields[o] : o \in DOMAIN Yields} :
              TimesReleased(h) = IF Acquired(h) THEN 1 ELSE 0

\* add_partition failed with all five objects open: all five were released.
C8_Witness ==
    /\ Returned
    /\ result = "AddPartition"
    /\ Len(released) = 5
    /\ open = {}

====
